---- MODULE Spec2Model ----
(***************************************************************************)
(* Retrieval-augmented generation core of cha_aug_back:                    *)
(*   app/services/vector_store_service.py  (VectorStoreService)            *)
(*   app/services/rag_service.py           (RAGService)                    *)
(*   app/services/openai_service.py        (get_openai_response)           *)
(*   app/services/response_formatter.py    (ResponseFormatter)             *)
(*                                                                         *)
(* Texts are sequences of tokens; the token " " is one whitespace          *)
(* character, every other token is one word, except the filler tokens      *)
(* that stand for a long run of words (their character and word counts are *)
(* given by TokChars and TokWords).  Distances are in thousandths.         *)
(***************************************************************************)
EXTENDS Integers, Sequences, FiniteSets, TLC

VARIABLES index, persisted, ingested, nIngest, last

\* the vector store directory seen file by file, and the service instances
\* that share it (used where a save is followed step by step)
VARIABLES dir, inodes, svc

files == <<dir, inodes, svc>>

vars == <<index, persisted, ingested, nIngest, last, dir, inodes, svc>>

(***************************************************************************)
(* Bounds                                                                  *)
(***************************************************************************)
MaxIngest == 2
MaxK == 2

(***************************************************************************)
(* Text primitives                                                         *)
(***************************************************************************)
Space == " "

Fillers == {"lorem1474", "ipsum1474", "dolor3500"}

TokChars(t) ==
  CASE t = "lorem1474" -> 1474
    [] t = "ipsum1474" -> 1474
    [] t = "dolor3500" -> 3500
    [] OTHER -> Len(t)

TokWords(t) ==
  CASE t = Space -> 0
    [] t = "lorem1474" -> 230
    [] t = "ipsum1474" -> 230
    [] t = "dolor3500" -> 540
    [] OTHER -> 1

\* str.lower() on one token
LowerTok(t) ==
  CASE t = "Initial" -> "initial"
    [] t = "What" -> "what"
    [] t = "The" -> "the"
    [] t = "Zyxoria" -> "zyxoria"
    [] t = "Zyxoria?" -> "zyxoria?"
    [] t = "Zyxtropolis" -> "zyxtropolis"
    [] t = "France?" -> "france?"
    [] t = "Syllabus" -> "syllabus"
    [] OTHER -> t

Lower(text) == [i \in 1..Len(text) |-> LowerTok(text[i])]

\* term.strip('.,!?;:') on one (lower-case) token
StripPunct(t) ==
  CASE t = "zyxoria?" -> "zyxoria"
    [] t = "france?" -> "france"
    [] t = "risk?" -> "risk"
    [] OTHER -> t

\* a is a substring of the single token b
Occurs(a, b) ==
  \/ a = b
  \/ <<a, b>> \in {<<"zyxoria", "zyxoria?">>, <<"france", "france?">>,
                   <<"risk", "risks">>, <<"risk", "risk?">>}

RECURSIVE LStrip(_)
LStrip(text) ==
  IF text # <<>> /\ Head(text) = Space THEN LStrip(Tail(text)) ELSE text

RECURSIVE RStrip(_)
RStrip(text) ==
  IF text # <<>> /\ text[Len(text)] = Space
  THEN RStrip(SubSeq(text, 1, Len(text) - 1))
  ELSE text

\* str.strip()
Strip(text) == RStrip(LStrip(text))

IsBlank(text) == Strip(text) = <<>>

RECURSIVE CharLen(_)
CharLen(text) ==
  IF text = <<>> THEN 0 ELSE TokChars(Head(text)) + CharLen(Tail(text))

RECURSIVE WordCount(_)
\* len(text.split())
WordCount(text) ==
  IF text = <<>> THEN 0 ELSE TokWords(Head(text)) + WordCount(Tail(text))

\* str.split(): the words of a text, in order
Split(text) == SelectSeq(text, LAMBDA t : t # Space)

\* `word in text` for a single word
ContainsWord(text, w) == \E i \in 1..Len(text) : Occurs(w, text[i])

\* `phrase in text` for a phrase of several tokens
ContainsPhrase(text, phrase) ==
  IF Len(phrase) = 1
  THEN ContainsWord(text, phrase[1])
  ELSE \E i \in 1..Len(text) :
         /\ i + Len(phrase) - 1 <= Len(text)
         /\ SubSeq(text, i, i + Len(phrase) - 1) = phrase

(***************************************************************************)
(* The texts and chunk lists the model ingests                             *)
(***************************************************************************)
TInit == <<"Initial", " ", "document">>
TZyx == <<"The", " ", "capital", " ", "of", " ", "Zyxoria", " ", "is", " ", "Zyxtropolis">>
TZyxPad == <<" ">> \o TZyx \o <<" ">>
TRiskA == <<"risk", " ", "lorem1474">>
TRiskB == <<"risk", " ", "ipsum1474">>
THuge == <<"risk", " ", "dolor3500">>
TCopy == <<"copyright", " ", "notice">>
TSyl == <<"Syllabus", " ", "overview">>
TSpace == <<" ", " ">>

Chunk(t, s) == [text |-> t, source |-> s]

Range(seq) == {seq[i] : i \in 1..Len(seq)}

\* _create_new_vector_store: the dummy document that initialises the index
Placeholder == Chunk(TInit, "system")

\* a batch of two sources: six chunks of a.pdf (one of text, five of page
\* boilerplate) and one chunk of b.txt
DocA == <<Chunk(TRiskA, "a.pdf"), Chunk(TCopy, "a.pdf"), Chunk(TCopy, "a.pdf"),
          Chunk(TCopy, "a.pdf"), Chunk(TCopy, "a.pdf"), Chunk(TCopy, "a.pdf"),
          Chunk(TRiskB, "b.txt")>>
\* the same sentence from two sources, once with surrounding whitespace
DocZ == <<Chunk(TZyx, "zyx.pdf"), Chunk(TZyxPad, "c.md"), Chunk(TSpace, "c.md")>>
DocS == <<Chunk(TSyl, "syl.pdf"), Chunk(THuge, "h.txt")>>
DocBlank == <<Chunk(TSpace, "blank.txt")>>

\* What load_documents + split_documents hand to the vector store
ChunkLists == {<<>>, DocA, DocZ, DocS, DocBlank}

QEmpty == <<>>
QBlank == <<" ">>
QZyx == <<"What", " ", "is", " ", "the", " ", "capital", " ", "of", " ", "Zyxoria?">>
QFrance == <<"What", " ", "is", " ", "the", " ", "capital", " ", "of", " ", "France?">>
QRisk == <<"risk", " ", "management", " ", "process">>
QDoc == <<"document", " ", "upload">>

Queries == {QEmpty, QBlank, QZyx, QFrance, QRisk, QDoc}

\* FAISS L2 distances, in thousandths
Scores == {200, 500}

\* score_threshold=None
NoThreshold == -1

Min(a, b) == IF a < b THEN a ELSE b
Max(a, b) == IF a > b THEN a ELSE b

(***************************************************************************)
(* VectorStoreService: ingestion                                           *)
(***************************************************************************)
ValidChunksMut(documents) == documents

\* the loop that keeps the documents whose page_content.strip() is not empty
ValidChunks(documents) == SelectSeq(documents, LAMBDA d : ~IsBlank(d.text))

\* _save_vector_store: on success the artifact is replaced by a dump of the
\* in-memory store; on failure the error is logged and the artifact is kept
SaveVectorStore(store, artifact, saveOk) == IF saveOk THEN store ELSE artifact

\* create_vector_store: FAISS.from_texts builds a new store from the texts
CreateStoreFromTexts(store, texts) == texts

\* add_documents: vector_store.add_texts extends the existing store
AddTextsToStore(store, texts) == store \o texts

\* VectorStoreService.create_vector_store(documents)
create_vector_store(documents, saveOk) ==
  IF documents = <<>> \/ ValidChunks(documents) = <<>>
  THEN UNCHANGED <<index, persisted>>
  ELSE /\ index' = CreateStoreFromTexts(index, ValidChunks(documents))
       /\ persisted' = SaveVectorStore(index', persisted, saveOk)

\* VectorStoreService.add_documents(documents)
vs_add_documents(documents, saveOk) ==
  IF documents = <<>> \/ ValidChunks(documents) = <<>>
  THEN UNCHANGED <<index, persisted>>
  ELSE /\ index' = AddTextsToStore(index, ValidChunks(documents))
       /\ persisted' = SaveVectorStore(index', persisted, saveOk)

(***************************************************************************)
(* VectorStoreService: the index file, block by block                      *)
(*                                                                         *)
(* dir maps a path of the vector store directory to the inode it names     *)
(* (NoFile when the path does not exist); inodes[i] is the content of      *)
(* inode i, a sequence of blocks.  A pickle of a store is DumpBlocks       *)
(* blocks long; the writer's buffer is flushed one block at a time.        *)
(***************************************************************************)
DumpBlocks == 2
MaxCrash == 1

\* os.path.join(VECTOR_STORE_DIR, f"{self.index_name}.pkl")
vector_store_path == "default_index.pkl"

temp_pathMut == vector_store_path

\* temp_path = f"{vector_store_path}.tmp"
temp_path == "default_index.pkl.tmp"

Paths == {vector_store_path, temp_path}

NoFile == 0

\* the service instances (processes) that share the directory
Services == {1, 2}

Block(store, i) == [of |-> store, part |-> i]

\* a block no writer has filled (the gap a write past the end leaves)
Hole == [of |-> <<>>, part |-> 0]

\* pickle.dump(self.vector_store, f): the blocks of the pickle, in order
pickle_dump(store) == [i \in 1..DumpBlocks |-> Block(store, i)]

\* the content is the whole pickle of one store
IsDump(content) ==
  /\ Len(content) = DumpBlocks
  /\ \A i \in 1..DumpBlocks : content[i] = Block(content[1].of, i)

pickle_loadMut(content) == [raised |-> FALSE, store |-> <<>>]

\* pickle.load(f): the store, or an exception on anything but a whole pickle
pickle_load(content) ==
  IF IsDump(content) THEN [raised |-> FALSE, store |-> content[1].of]
  ELSE [raised |-> TRUE, store |-> <<>>]

\* f.write of one block at block offset off of a file opened with "wb"
WriteAt(content, off, block) ==
  [i \in 1..Max(Len(content), off + 1) |->
     IF i = off + 1 THEN block
     ELSE IF i <= Len(content) THEN content[i] ELSE Hole]

\* the state of a service instance: where it is in its call, its in-memory
\* store, the file it has open and the block offset of its next write
\* (boot: how the constructor got its store; read: what it found under the
\* index's path; durable: the store of its last load or successful save;
\* saving: the store of its last save, finished or not)
Down == [pc |-> "down", store |-> <<>>, fd |-> NoFile, off |-> 0,
         boot |-> "none", read |-> "none", chunks |-> <<>>, op |-> "none",
         found |-> <<>>, saved |-> "none", crashes |-> 0,
         durable |-> <<>>, saving |-> <<>>]

\* a service instance that constructed its store on an empty directory
Bootstrapped == [Down EXCEPT !.pc = "idle", !.store = <<Placeholder>>,
                             !.boot = "created", !.read = "missing",
                             !.saved = "yes",
                             !.durable = <<Placeholder>>,
                             !.saving = <<Placeholder>>]

_load_vector_storeMut(exists, content) ==
  IF ~exists THEN [boot |-> "created", store |-> <<Placeholder>>]
  ELSE IF pickle_load(content).raised THEN [boot |-> "raised", store |-> <<>>]
  ELSE [boot |-> "loaded", store |-> pickle_load(content).store]

\* _load_vector_store: a new store when the directory has no index or the
\* load raises (_create_new_vector_store), else the unpickled store
_load_vector_store(exists, content) ==
  IF ~exists THEN [boot |-> "created", store |-> <<Placeholder>>]
  ELSE IF pickle_load(content).raised
       THEN [boot |-> "rebuilt", store |-> <<Placeholder>>]
  ELSE [boot |-> "loaded", store |-> pickle_load(content).store]

\* the directory after a first start-up: the pickle of the new store
FilesAfterBootstrap ==
  /\ dir = [n \in Paths |-> IF n = vector_store_path THEN 1 ELSE NoFile]
  /\ inodes = <<pickle_dump(<<Placeholder>>)>>

(***************************************************************************)
(* VectorStoreService.similarity_search                                    *)
(***************************************************************************)
FetchKMut(k) == Min(k * 2, 50)

\* fetch_k = min(k * 3, 50)
FetchK(k) == Min(k * 3, 50)

TextsOf(store) == {store[i].text : i \in 1..Len(store)}

\* position of the nearest entry among the positions in S (ties: store order)
Nearest(store, dist, S) ==
  CHOOSE i \in S : \A j \in S :
     \/ dist[store[i].text] < dist[store[j].text]
     \/ dist[store[i].text] = dist[store[j].text] /\ i <= j

RECURSIVE NearestN(_, _, _, _)
\* vector_store.similarity_search_with_score(query, k=n): the n nearest
\* entries, nearest first, each with its distance
NearestN(store, dist, S, n) ==
  IF n = 0 \/ S = {} THEN <<>>
  ELSE LET i == Nearest(store, dist, S)
       IN <<[text |-> store[i].text, source |-> store[i].source,
             score |-> dist[store[i].text]]>>
          \o NearestN(store, dist, S \ {i}, n - 1)

FaissSearch(store, dist, n) == NearestN(store, dist, 1..Len(store), n)

RECURSIVE UniqueSources(_, _, _, _, _)
\* the loop over docs_and_scores: drop the documents over the score
\* threshold and the documents whose source was already seen, stop at k
UniqueSources(docs, seen, documents, k, threshold) ==
  IF docs = <<>> THEN documents
  ELSE LET doc == Head(docs)
       IN IF threshold # NoThreshold /\ doc.score > threshold
          THEN UniqueSources(Tail(docs), seen, documents, k, threshold)
          ELSE IF doc.source \in seen
          THEN UniqueSources(Tail(docs), seen, documents, k, threshold)
          ELSE IF Len(documents) + 1 >= k
          THEN Append(documents, doc)
          ELSE UniqueSources(Tail(docs), seen \cup {doc.source},
                             Append(documents, doc), k, threshold)

\* similarity_search(query, k, score_threshold); searchOk = FALSE when the
\* store's search raises, which is logged and answered with []
similarity_search(store, dist, k, threshold, searchOk) ==
  IF ~searchOk THEN <<>>
  ELSE LET docs_and_scores == FaissSearch(store, dist, FetchK(k))
       IN IF docs_and_scores = <<>> THEN <<>>
          ELSE UniqueSources(docs_and_scores, {}, <<>>, k, threshold)

(***************************************************************************)
(* RAGService._is_relevant_document                                        *)
(***************************************************************************)
skip_phrases ==
  {<<"copyright">>, <<"all", " ", "rights", " ", "reserved">>,
   <<"document", " ", "responsibility">>, <<"acknowledgements">>,
   <<"sample", " ", "exam">>, <<"mock", " ", "test">>,
   <<"practice", " ", "test">>, <<"exam", " ", "questions">>,
   <<"answer", " ", "key">>, <<"correct", " ", "answer">>,
   <<"question", " ", "bank">>, <<"this", " ", "is", " ", "a", " ", "sample">>,
   <<"mock", " ", "examination">>, <<"practice", " ", "questions">>,
   <<"test", " ", "your", " ", "knowledge">>, <<"exam", " ", "preparation">>}

stopwords ==
  {"what", "where", "when", "who", "whom", "which", "whose", "why", "how",
   "is", "are", "was", "were", "be", "been", "being", "have", "has", "had",
   "do", "does", "did", "will", "would", "shall", "should", "may", "might",
   "must", "can", "could", "the", "a", "an", "and", "or", "but", "if", "then",
   "else", "at", "from", "by", "on", "off", "for", "in", "out", "over",
   "to", "of", "with", "about", "as", "into", "like", "through", "after",
   "once", "this", "that", "these", "those", "there", "here", "their", "they",
   "them", "test", "testing", "tester", "testers", "istqb", "foundation",
   "level", "syllabus", "question", "answer", "explain", "describe", "define",
   "what's", "what is", "please"}

\* the meaningful terms of the query; every term over two characters when
\* the stopword filter leaves none
QueryTerms(query) ==
  LET words == Split(Lower(Strip(query)))
      kept == SelectSeq(words, LAMBDA t : Len(t) > 2 /\ t \notin stopwords)
      lenient == SelectSeq(words, LAMBDA t : Len(t) > 2)
      chosen == IF kept = <<>> THEN lenient ELSE kept
  IN [i \in 1..Len(chosen) |-> StripPunct(chosen[i])]

\* matching_terms: the query terms that occur in the lower-cased content
MatchingTerms(content, query) ==
  LET terms == QueryTerms(query)
  IN Cardinality({i \in 1..Len(terms) : ContainsWord(Lower(content), terms[i])})

\* normalized_score = 1.0 - min(1.0, max(0.0, score)), in thousandths
NormalizedScore(score) == 1000 - Min(1000, Max(0, score))

\* length_penalty = min(1.0, 800 / max(50, content_length)) as the fraction
\* 800 / LengthPenaltyDen(content)
LengthPenaltyDen(content) == Max(800, Max(50, WordCount(Lower(content))))

combined_scoreMut(content, query, score, is_syllabus) ==
  LET n == Max(1, Len(QueryTerms(query)))
      m == MatchingTerms(content, query)
      den == LengthPenaltyDen(content)
      norm == NormalizedScore(score)
  IN 2 * (6 * norm * n * den - 4 * m * 1000 * 800)

\* combined_score in thousandths, multiplied by
\* 20 * max(1, len(query_terms)) * LengthPenaltyDen(content)
combined_score(content, query, score, is_syllabus) ==
  LET n == Max(1, Len(QueryTerms(query)))
      m == MatchingTerms(content, query)
      den == LengthPenaltyDen(content)
      norm == NormalizedScore(score)
  IN IF is_syllabus
     THEN 3 * (5 * norm * n * den + 5 * m * 1000 * 800)
     ELSE 2 * (6 * norm * n * den + 4 * m * 1000 * 800)

\* combined_score >= min_score_threshold, both sides multiplied by
\* 20 * max(1, len(query_terms)) * LengthPenaltyDen(content)
CombinedAtLeastThreshold(content, query, score, is_syllabus) ==
  LET n == Max(1, Len(QueryTerms(query)))
      den == LengthPenaltyDen(content)
      short == Len(QueryTerms(query)) <= 2
      \* thresholds in thousandths; the syllabus ones carry the 0.9 factor
      threshold == IF is_syllabus THEN (IF short THEN 360 ELSE 270)
                   ELSE (IF short THEN 450 ELSE 350)
  IN combined_score(content, query, score, is_syllabus) >= 20 * n * den * threshold

_is_relevant_document(doc_content, query, score) ==
  IF ContainsWord(Lower(doc_content), "syllabus") THEN TRUE
  ELSE IF doc_content = <<>> \/ query = <<>> \/ IsBlank(query) THEN FALSE
  ELSE IF \E p \in skip_phrases : ContainsPhrase(Lower(doc_content), p) THEN FALSE
  ELSE IF ContainsWord(Lower(Strip(query)), "zyxoria")
       THEN ContainsWord(Lower(doc_content), "zyxoria")
  ELSE LET n == Max(1, Len(QueryTerms(query)))
           m == MatchingTerms(doc_content, query)
           is_syllabus == ContainsWord(Lower(doc_content), "syllabus")
       IN \/ CombinedAtLeastThreshold(doc_content, query, score, is_syllabus)
          \/ 10 * m >= 4 * n
          \/ (NormalizedScore(score) >= 750 /\ 4 * m >= n)
          \/ (Len(QueryTerms(query)) <= 2 /\ 2 * m >= n)

\* the candidate gets as far as the computation of combined_score
ReachesScoring(doc_content, query) ==
  /\ ~ContainsWord(Lower(doc_content), "syllabus")
  /\ ~(doc_content = <<>> \/ query = <<>> \/ IsBlank(query))
  /\ ~\E p \in skip_phrases : ContainsPhrase(Lower(doc_content), p)
  /\ ~ContainsWord(Lower(Strip(query)), "zyxoria")

NotScored == -1

\* the combined_score the call computes and logs, if it gets that far
LoggedCombined(doc_content, query, score) ==
  IF ReachesScoring(doc_content, query)
  THEN combined_score(doc_content, query, score, FALSE)
  ELSE NotScored

(***************************************************************************)
(* openai_service.get_openai_response                                      *)
(***************************************************************************)
\* texts the chat completion can carry
RAnswer == "Risk management identifies, assesses and controls the product risks."
RNoInfo == "That is not in the context, but the documents mention related topics."
RDontKnow == "I don't know."

HTTP_ERROR_TEXT == "Error: HTTP error occurred: Client error '401 Unauthorized' for url 'https://api.openai.com/v1/chat/completions'"
GENERIC_ERROR_TEXT == "I'm sorry, I encountered an error while processing your request."
EMPTY_CONTENT_TEXT == "I'm sorry, I couldn't generate a response. Please try again."

\* what the HTTP exchange with the completion API does
Exchanges ==
  {[kind |-> "ok", content |-> RAnswer],
   [kind |-> "ok", content |-> RNoInfo],
   [kind |-> "ok", content |-> RDontKnow],
   [kind |-> "ok", content |-> ""],          \* 200 with no content
   [kind |-> "status", content |-> ""],      \* non-200: raise_for_status raises
   [kind |-> "transport", content |-> ""]}   \* client.post raises

BackendFailed(x) == x.kind # "ok" \/ x.content = ""

\* get_openai_response: the returned string; no exception leaves the function
get_openai_response(x) ==
  IF x.kind = "status" THEN [raised |-> FALSE, text |-> HTTP_ERROR_TEXT]
  ELSE IF x.kind = "transport" THEN [raised |-> FALSE, text |-> GENERIC_ERROR_TEXT]
  ELSE IF x.content = "" THEN [raised |-> FALSE, text |-> EMPTY_CONTENT_TEXT]
  ELSE [raised |-> FALSE, text |-> x.content]

HasNoAnswerPhraseMut(text) == TRUE

\* any(phrase in response_lower ...) for the six phrases of the first check
HasNoAnswerPhrase(text) == text \in {RNoInfo, RDontKnow}

\* ... and for the two phrases of the check after the extract prompt
HasDontKnowPhrase(text) == text \in {RDontKnow}

(***************************************************************************)
(* ResponseFormatter                                                       *)
(***************************************************************************)
format_empty_query == [answer |-> [kind |-> "empty_query", body |-> ""], sources |-> <<>>]

format_not_found_response(query) ==
  [answer |-> [kind |-> "not_found", body |-> ""], sources |-> <<>>]

format_response(response_text, query, sources) ==
  IF IsBlank(query) THEN format_empty_query
  ELSE [answer |-> [kind |-> "formatted", body |-> response_text], sources |-> sources]

(***************************************************************************)
(* RAGService.generate_response                                            *)
(***************************************************************************)
RECURSIVE FilterRelevant(_, _, _, _, _)
\* the loop over relevant_docs that builds relevant_sources
FilterRelevant(docs, query, score_threshold, seen_content, relevant_sources) ==
  IF docs = <<>> THEN relevant_sources
  ELSE LET doc == Head(docs)
           doc_content == Strip(doc.text)
       IN IF doc_content = <<>> \/ doc_content \in seen_content
          THEN FilterRelevant(Tail(docs), query, score_threshold, seen_content,
                              relevant_sources)
          ELSE IF /\ _is_relevant_document(doc_content, query, doc.score)
                  /\ doc.score >= score_threshold
          THEN FilterRelevant(Tail(docs), query, score_threshold,
                 seen_content \cup {doc_content},
                 Append(relevant_sources,
                        [content |-> doc_content, source |-> doc.source,
                         score |-> doc.score]))
          ELSE FilterRelevant(Tail(docs), query, score_threshold, seen_content,
                              relevant_sources)

RECURSIVE InsertByScore(_, _)
\* insert d after every element whose score is at least d's
InsertByScore(sorted, d) ==
  IF sorted = <<>> THEN <<d>>
  ELSE IF Head(sorted).score >= d.score
       THEN <<Head(sorted)>> \o InsertByScore(Tail(sorted), d)
       ELSE <<d>> \o sorted

RECURSIVE SortByScore(_)
\* relevant_sources.sort(key=score, reverse=True): stable, highest first
SortByScore(sources) ==
  IF sources = <<>> THEN <<>>
  ELSE InsertByScore(SortByScore(SubSeq(sources, 1, Len(sources) - 1)),
                     sources[Len(sources)])

max_context_length == 3000

\* len("\n\n---\n\n")
SeparatorLen == 7

\* len(f"Document from {source}:\n{content}")
FormattedDocLen(doc) == 14 + Len(doc.source) + 2 + CharLen(Strip(doc.content))

\* the test that ends the loop over relevant_sources
ExceedsLimit(current_length, doc_len) == current_length + doc_len > max_context_length

RECURSIVE BuildContext(_, _, _)
\* the loop that fills combined_context; the result is the list of the
\* lengths of its blocks
BuildContext(sources, combined_context, current_length) ==
  IF sources = <<>> THEN combined_context
  ELSE LET doc == Head(sources)
           n == FormattedDocLen(doc)
       IN IF Strip(doc.content) = <<>>
          THEN BuildContext(Tail(sources), combined_context, current_length)
          ELSE IF ExceedsLimit(current_length, n)
          THEN IF combined_context = <<>>
               THEN LET remaining_space == max_context_length - current_length - 50
                    IN IF remaining_space > 100
                       THEN <<Min(n, remaining_space) + 3>>
                       ELSE combined_context
               ELSE combined_context
          ELSE BuildContext(Tail(sources), Append(combined_context, n),
                            current_length + n)

RECURSIVE SumSeq(_)
SumSeq(ns) == IF ns = <<>> THEN 0 ELSE Head(ns) + SumSeq(Tail(ns))

\* len("\n\n---\n\n".join(combined_context))
JoinedLen(blocks) ==
  IF blocks = <<>> THEN 0 ELSE SumSeq(blocks) + SeparatorLen * (Len(blocks) - 1)

NoRelevantContentMut(relevant_sources) == FALSE

\* `if not relevant_sources`: nothing survived the filter
NoRelevantContent(relevant_sources) == relevant_sources = <<>>

\* the try block: the calls to get_openai_response, driven by the exchanges
\* of `tape` in order; n is the number of calls made
Synthesize(tape) ==
  LET r1 == get_openai_response(tape[1])
  IN IF r1.raised THEN [n |-> 1, raised |-> TRUE, text |-> ""]
     ELSE IF ~HasNoAnswerPhrase(r1.text) THEN [n |-> 1, raised |-> FALSE, text |-> r1.text]
     ELSE LET r2 == get_openai_response(tape[2])
          IN IF r2.raised THEN [n |-> 2, raised |-> TRUE, text |-> ""]
             ELSE IF ~(r2.text # "" /\ Len(r2.text) > 50)
             THEN [n |-> 2, raised |-> FALSE, text |-> r1.text]
             ELSE LET r3 == get_openai_response(tape[3])
                  IN IF r3.raised THEN [n |-> 3, raised |-> TRUE, text |-> ""]
                     ELSE IF ~HasDontKnowPhrase(r3.text)
                     THEN [n |-> 3, raised |-> FALSE, text |-> r3.text]
                     ELSE LET r4 == get_openai_response(tape[4])
                          IN IF r4.raised THEN [n |-> 4, raised |-> TRUE, text |-> ""]
                             ELSE [n |-> 4, raised |-> FALSE, text |-> r4.text]

\* the sequences of exchanges one call of generate_response can go through
Tapes ==
  {SubSeq(t, 1, Synthesize(t).n) : t \in [1..4 -> Exchanges]}

TapesFor(relevant_sources) ==
  IF NoRelevantContent(relevant_sources) THEN {<<>>} ELSE Tapes

\* generate_response after the relevance loop: the RAGResponse, with the
\* context and the exchanges of the call
Respond(query, relevant_sources, tape) ==
  IF NoRelevantContent(relevant_sources)
  THEN [relevant |-> relevant_sources, context |-> <<>>, exchanges |-> <<>>,
        texts |-> <<>>,
        answer |-> format_not_found_response(query).answer,
        sources |-> format_not_found_response(query).sources]
  ELSE LET sorted == SortByScore(relevant_sources)
           combined_context == BuildContext(sorted, <<>>, 0)
           syn == Synthesize(tape)
       IN [relevant |-> sorted, context |-> combined_context,
           exchanges |-> SubSeq(tape, 1, syn.n),
           texts |-> [i \in 1..syn.n |-> get_openai_response(tape[i]).text],
           answer |-> IF syn.raised
                      THEN format_not_found_response(query).answer
                      ELSE format_response(syn.text, query, sorted).answer,
           sources |-> IF syn.raised
                       THEN format_not_found_response(query).sources
                       ELSE sorted]

(***************************************************************************)
(* State machine                                                           *)
(*                                                                         *)
(* One caller drives the services: it issues a call, `last` holds what the *)
(* call returned (with the searches, context and exchanges it went         *)
(* through), and the caller takes the result before its next call.         *)
(***************************************************************************)
Idle == [op |-> "idle"]

\* VectorStoreService.__init__ with no persisted index: _load_vector_store
\* calls _create_new_vector_store, which saves the new store
Init ==
  /\ index = <<Placeholder>>
  /\ persisted = <<Placeholder>>
  /\ ingested = {}
  /\ nIngest = 0
  /\ last = Idle
  /\ FilesAfterBootstrap
  /\ svc = [p \in Services |-> Down]

\* RAGService.add_documents, from the chunks load + split produced
RagAddDocuments(saves) ==
  /\ last = Idle
  /\ nIngest < MaxIngest
  /\ \E chunks \in ChunkLists, saveOk \in saves :
    /\ nIngest' = nIngest + 1
    /\ IF chunks = <<>>
       THEN /\ UNCHANGED <<index, persisted, ingested>>
            /\ last' = [op |-> "add_documents", ret |-> 0, chunks |-> chunks,
                        before |-> index]
       ELSE /\ create_vector_store(chunks, saveOk)
            /\ ingested' = ingested \cup Range(ValidChunks(chunks))
            /\ last' = [op |-> "add_documents", ret |-> Len(chunks),
                        chunks |-> chunks, before |-> index]
    /\ UNCHANGED files

\* VectorStoreService.add_documents called directly (reingest_pdfs.py)
VsAddDocuments(saves) ==
  /\ last = Idle
  /\ nIngest < MaxIngest
  /\ \E chunks \in ChunkLists, saveOk \in saves :
    /\ nIngest' = nIngest + 1
    /\ vs_add_documents(chunks, saveOk)
    /\ UNCHANGED <<ingested, files>>
    /\ last' = [op |-> "vs_add_documents", chunks |-> chunks, before |-> index]

\* the distances the store can report for its texts, and a failing search
DistChoices(store) == [TextsOf(store) -> Scores]

SearchOutcomes(store) ==
  {[ok |-> TRUE, dist |-> d] : d \in DistChoices(store)}
  \cup {[ok |-> FALSE, dist |-> [t \in TextsOf(store) |-> 500]]}

\* VectorStoreService.similarity_search called directly
SimilaritySearch ==
  /\ last = Idle
  /\ \E k \in 1..MaxK, threshold \in {NoThreshold, 300}, so \in SearchOutcomes(index) :
    /\ last' = [op |-> "similarity_search", k |-> k, threshold |-> threshold,
                searchOk |-> so.ok,
                ranked |-> FaissSearch(index, so.dist, Len(index)),
                results |-> similarity_search(index, so.dist, k, threshold, so.ok)]
    /\ UNCHANGED <<index, persisted, ingested, nIngest, files>>

\* score_threshold: 0.0 from the chat route, 0.4 by default
ScoreThresholds == {0, 400}

\* The inputs of generate_response: every retrieval with the exchanges that
\* end at the first call, and every sequence of exchanges with one retrieval
GenerateInputs(store) ==
  {[query |-> q, top_k |-> k, score_threshold |-> th, so |-> so, tapes |-> "first"] :
     q \in Queries, k \in 1..MaxK, th \in ScoreThresholds, so \in SearchOutcomes(store)}
  \cup
  {[query |-> q, top_k |-> MaxK, score_threshold |-> 0,
    so |-> [ok |-> TRUE, dist |-> [t \in TextsOf(store) |-> 500]], tapes |-> "all"] :
     q \in Queries}

\* RAGService.generate_response
GenerateResponse ==
  /\ last = Idle
  /\ \E in \in GenerateInputs(index) :
       LET relevant_docs == similarity_search(index, in.so.dist, in.top_k,
                                              NoThreshold, in.so.ok)
           relevant_sources == FilterRelevant(relevant_docs, in.query,
                                              in.score_threshold, {}, <<>>)
       IN \E tape \in TapesFor(relevant_sources) :
            /\ in.tapes = "first" => Len(tape) <= 1
            /\ last' = [op |-> "generate_response", query |-> in.query,
                        k |-> in.top_k, searches |-> 1,
                        score_threshold |-> in.score_threshold,
                        retrieved |-> relevant_docs]
                       @@ Respond(in.query, relevant_sources, tape)
            /\ UNCHANGED <<index, persisted, ingested, nIngest, files>>

\* the caller takes the result of its call
Return ==
  /\ last # Idle
  /\ last' = Idle
  /\ UNCHANGED <<index, persisted, ingested, nIngest, files>>

\* the query path; the saves of the ingestions succeed
Next ==
  \/ RagAddDocuments({TRUE})
  \/ VsAddDocuments({TRUE})
  \/ SimilaritySearch
  \/ GenerateResponse
  \/ Return

Spec == Init /\ [][Next]_vars

\* the ingestion path alone, with saves that can fail
NextIngest ==
  \/ RagAddDocuments(BOOLEAN)
  \/ VsAddDocuments(BOOLEAN)
  \/ Return

SpecIngest == Init /\ [][NextIngest]_vars

(***************************************************************************)
(* State machine of the index file                                         *)
(*                                                                         *)
(* The same services with _save_vector_store followed step by step: each   *)
(* instance p of Services is a process with its own in-memory store, and   *)
(* all of them work on the one directory.                                  *)
(***************************************************************************)
call == <<index, persisted, ingested, last>>

SavePcs == {"open", "write", "check", "replace", "cleanup"}

Exists(path) == dir[path] # NoFile

\* VectorStoreService.__init__ -> _load_vector_store
Construct(p) ==
  /\ svc[p].pc = "down"
  /\ LET exists == Exists(vector_store_path)
         content == IF exists THEN inodes[dir[vector_store_path]] ELSE <<>>
         r == _load_vector_store(exists, content)
     IN svc' = [svc EXCEPT ![p] =
                 [@ EXCEPT !.pc = IF r.boot = "loaded" THEN "idle"
                                  ELSE IF r.boot = "raised" THEN "failed"
                                  ELSE "open",
                           !.store = r.store,
                           !.boot = r.boot,
                           !.read = IF ~exists THEN "missing"
                                    ELSE IF IsDump(content) THEN "whole"
                                    ELSE "corrupt",
                           !.chunks = <<>>, !.op = "none", !.found = <<>>,
                           !.saved = "none",
                           !.durable = IF r.boot = "loaded" THEN r.store ELSE @,
                           !.saving = r.store]]
  /\ UNCHANGED <<call, nIngest, dir, inodes>>

\* create_vector_store(chunks) or add_documents(chunks) up to self.save()
Ingest(p) ==
  /\ svc[p].pc = "idle"
  /\ nIngest < MaxIngest
  /\ \E chunks \in ChunkLists, op \in {"create_vector_store", "add_documents"} :
       LET texts == ValidChunks(chunks)
           store == IF op = "create_vector_store"
                    THEN CreateStoreFromTexts(svc[p].store, texts)
                    ELSE AddTextsToStore(svc[p].store, texts)
       IN svc' = [svc EXCEPT ![p] =
                   IF chunks = <<>> \/ texts = <<>>
                   THEN [@ EXCEPT !.chunks = chunks, !.op = op, !.found = <<>>]
                   ELSE [@ EXCEPT !.pc = "open", !.store = store,
                                  !.chunks = chunks, !.op = op, !.found = <<>>,
                                  !.saved = "none", !.saving = store]]
  /\ nIngest' = nIngest + 1
  /\ UNCHANGED <<call, dir, inodes>>

\* open(temp_path, "wb"): creates the file, or empties the one that is there
OpenTemp(p) ==
  /\ svc[p].pc = "open"
  /\ IF Exists(temp_path)
     THEN /\ inodes' = [inodes EXCEPT ![dir[temp_path]] = <<>>]
          /\ UNCHANGED dir
          /\ svc' = [svc EXCEPT ![p].pc = "write", ![p].fd = dir[temp_path],
                                ![p].off = 0]
     ELSE /\ inodes' = Append(inodes, <<>>)
          /\ dir' = [dir EXCEPT ![temp_path] = Len(inodes) + 1]
          /\ svc' = [svc EXCEPT ![p].pc = "write", ![p].fd = Len(inodes) + 1,
                                ![p].off = 0]
  /\ UNCHANGED <<call, nIngest>>

\* pickle.dump: the next block of the pickle goes to the open file
WriteBlock(p) ==
  /\ svc[p].pc = "write"
  /\ inodes' = [inodes EXCEPT ![svc[p].fd] =
                  WriteAt(@, svc[p].off, pickle_dump(svc[p].store)[svc[p].off + 1])]
  /\ svc' = [svc EXCEPT ![p].off = @ + 1,
                        ![p].pc = IF svc[p].off + 1 = DumpBlocks
                                  THEN "check" ELSE "write"]
  /\ UNCHANGED <<call, nIngest, dir>>

\* pickle.dump raises (no space left, an object that cannot be pickled)
WriteFails(p) ==
  /\ svc[p].pc = "write"
  /\ svc' = [svc EXCEPT ![p].pc = "cleanup", ![p].fd = NoFile]
  /\ UNCHANGED <<call, nIngest, dir, inodes>>

\* the file is closed; `if not os.path.exists(temp_path): raise IOError`
CheckTemp(p) ==
  /\ svc[p].pc = "check"
  /\ svc' = [svc EXCEPT ![p].fd = NoFile,
                        ![p].pc = IF Exists(temp_path) THEN "replace"
                                  ELSE "cleanup"]
  /\ UNCHANGED <<call, nIngest, dir, inodes>>

\* os.replace(temp_path, vector_store_path) (os.rename when there is no
\* index yet), the check that the index exists, and `return True`
Replace(p) ==
  /\ svc[p].pc = "replace"
  /\ IF Exists(temp_path)
     THEN /\ dir' = [dir EXCEPT ![temp_path] = NoFile,
                                ![vector_store_path] = dir[temp_path]]
          /\ svc' = [svc EXCEPT ![p].pc = "idle", ![p].saved = "yes",
                                ![p].durable = svc[p].store]
     ELSE /\ UNCHANGED dir
          /\ svc' = [svc EXCEPT ![p].pc = "cleanup"]
  /\ UNCHANGED <<call, nIngest, inodes>>

\* the except branch: the temporary file is removed, `return False`
Cleanup(p) ==
  /\ svc[p].pc = "cleanup"
  /\ dir' = [dir EXCEPT ![temp_path] = NoFile]
  /\ svc' = [svc EXCEPT ![p].pc = "idle", ![p].saved = "no"]
  /\ UNCHANGED <<call, nIngest, inodes>>

\* the process of the service is killed in the middle of a save
Crash(p) ==
  /\ svc[p].pc \in SavePcs
  /\ svc[p].crashes < MaxCrash
  /\ svc' = [svc EXCEPT ![p] = [Down EXCEPT !.crashes = svc[p].crashes + 1,
                                            !.durable = svc[p].durable,
                                            !.saving = svc[p].saving]]
  /\ UNCHANGED <<call, nIngest, dir, inodes>>

\* the process of the service ends between two calls
Stop(p) ==
  /\ svc[p].pc = "idle"
  /\ svc' = [svc EXCEPT ![p] = [Down EXCEPT !.crashes = svc[p].crashes,
                                            !.durable = svc[p].durable,
                                            !.saving = svc[p].saving]]
  /\ UNCHANGED <<call, nIngest, dir, inodes>>

\* similarity_search(query, k=1) on the store of the instance
Search(p) ==
  /\ svc[p].pc = "idle"
  /\ svc[p].found = <<>>
  /\ \E score \in Scores :
       svc' = [svc EXCEPT ![p].found =
                 similarity_search(svc[p].store,
                                   [t \in TextsOf(svc[p].store) |-> score],
                                   1, NoThreshold, TRUE)]
  /\ UNCHANGED <<call, nIngest, dir, inodes>>

\* the steps of one service instance
Save(p) ==
  \/ OpenTemp(p)
  \/ WriteBlock(p)
  \/ WriteFails(p)
  \/ CheckTemp(p)
  \/ Replace(p)
  \/ Cleanup(p)

CallInit ==
  /\ index = <<Placeholder>>
  /\ persisted = <<Placeholder>>
  /\ ingested = {}
  /\ nIngest = 0
  /\ last = Idle

\* one writer that can be killed while it saves, and a second process that
\* starts on whatever the directory holds
InitSave ==
  /\ CallInit
  /\ FilesAfterBootstrap
  /\ svc = [p \in Services |-> IF p = 1 THEN Bootstrapped ELSE Down]

NextSave ==
  \/ Ingest(1)
  \/ Save(1)
  \/ Crash(1)
  \/ Construct(1)
  \/ Construct(2)
  \/ Stop(2)

SpecSave == InitSave /\ [][NextSave]_vars

\* two processes that both ingest under the same index name
InitConcurrent ==
  /\ CallInit
  /\ FilesAfterBootstrap
  /\ svc = [p \in Services |-> Bootstrapped]

NextConcurrent == \E p \in Services : Ingest(p) \/ Save(p)

SpecConcurrent == InitConcurrent /\ [][NextConcurrent]_vars

\* what the directory can hold when a service starts: nothing, the pickle
\* of a store, a pickle cut short, a pickle with a gap
StartFiles ==
  {<<>>,
   <<pickle_dump(<<Placeholder>>)>>,
   <<pickle_dump(ValidChunks(DocZ))>>,
   <<SubSeq(pickle_dump(ValidChunks(DocZ)), 1, DumpBlocks - 1)>>,
   <<[pickle_dump(ValidChunks(DocA)) EXCEPT ![1] = Hole]>>}

InitStart ==
  /\ CallInit
  /\ inodes \in StartFiles
  /\ dir = [n \in Paths |-> IF n = vector_store_path /\ inodes # <<>>
                            THEN 1 ELSE NoFile]
  /\ svc = [p \in Services |-> Down]

NextStart ==
  \/ Construct(1)
  \/ Ingest(1)
  \/ Save(1)
  \/ Crash(1)
  \/ Search(1)

SpecStart == InitStart /\ [][NextStart]_vars

\* the knowledge base of the relevance tests: the one sentence on Zyxoria
\* was ingested and nothing else
InitZyx ==
  /\ index = <<Chunk(TZyx, "zyx.pdf")>>
  /\ persisted = index
  /\ ingested = {Chunk(TZyx, "zyx.pdf")}
  /\ nIngest = 1
  /\ last = Idle
  /\ FilesAfterBootstrap
  /\ svc = [p \in Services |-> Down]

NextZyx ==
  \/ GenerateResponse
  \/ Return

SpecZyx == InitZyx /\ [][NextZyx]_vars

(***************************************************************************)
(* _is_relevant_document on its own                                        *)
(***************************************************************************)
TShort == <<"Syllabus">>
TCopyDoc == <<"copyright", " ", "document">>
\* two texts of 1082 words, with one and with two terms of QRisk
TLongOne == <<"risk", " ", "notice", " ", "dolor3500", " ", "dolor3500">>
TLongTwo == <<"risk", " ", "management", " ", "dolor3500", " ", "dolor3500">>

\* candidate contents: none, the placeholder, plain text, boilerplate (one
\* with a query term in it), syllabus text, a text of 540 words
Contents ==
  {<<>>, TInit, TZyx, TRiskA, THuge, TCopy, TCopyDoc, TSyl, TShort, TLongOne,
   TLongTwo}

\* distances from an exact match to one beyond the normalisation range
Distances == {0, 200, 500, 1200}

IsRelevantDocument ==
  /\ last = Idle
  /\ \E doc_content \in Contents, query \in Queries, score \in Distances :
       last' = [op |-> "_is_relevant_document", doc_content |-> doc_content,
                query |-> query, score |-> score,
                combined |-> LoggedCombined(doc_content, query, score),
                ret |-> _is_relevant_document(doc_content, query, score)]
  /\ UNCHANGED <<index, persisted, ingested, nIngest, files>>

NextRelevance ==
  \/ IsRelevantDocument
  \/ Return

SpecRelevance == Init /\ [][NextRelevance]_vars

(***************************************************************************)
(* routes/chat.py: is_knowledge_query and chat_message                     *)
(***************************************************************************)
MHello == <<"hello">>
MTell == <<"tell", " ", "me", " ", "about", " ", "risk">>
MHow == <<"explain", " ", "how", " ", "risk", " ", "works">>

ChatMessages == Queries \cup {MHello, MTell, MHow}

\* the members of ModelType; ModelType.RAG.value is "rag"
ModelTypes == {"local", "openai", "rag"}

simple_phrases ==
  {<<"hello">>, <<"hi">>, <<"hey">>, <<"greetings">>, <<"thanks">>,
   <<"thank", " ", "you">>, <<"ok">>, <<"okay">>, <<"got", " ", "it">>}

question_words ==
  {<<"what">>, <<"who">>, <<"when">>, <<"where">>, <<"why">>, <<"how">>,
   <<"which">>, <<"tell", " ", "me">>, <<"do", " ", "you", " ", "know">>,
   <<"can", " ", "you", " ", "tell", " ", "me">>, <<"what", " ", "is">>,
   <<"who", " ", "is">>}

\* '?' in message
HasQuestionMark(message) ==
  \E i \in 1..Len(message) : message[i] \in {"Zyxoria?", "France?"}

\* message_lower.startswith(word): the last token of word may be the
\* beginning of a longer token
StartsWith(text, word) ==
  /\ Len(text) >= Len(word)
  /\ SubSeq(text, 1, Len(word) - 1) = SubSeq(word, 1, Len(word) - 1)
  /\ \/ text[Len(word)] = word[Len(word)]
     \/ <<word[Len(word)], text[Len(word)]>> \in {<<"what", "whatever">>, <<"how", "however">>}

\* f' {word} ' in f' {message_lower} '
HasWord(text, word) ==
  \E i \in 1..Len(text) :
    /\ i + Len(word) - 1 <= Len(text)
    /\ SubSeq(text, i, i + Len(word) - 1) = word
    /\ i = 1 \/ text[i - 1] = Space
    /\ i + Len(word) - 1 = Len(text) \/ text[i + Len(word)] = Space

is_knowledge_query(message) ==
  IF message = <<>> \/ IsBlank(message) THEN FALSE
  ELSE LET message_lower == Lower(Strip(message))
       IN IF \E phrase \in simple_phrases :
               Len(phrase) = 1 /\ phrase[1] \in Range(Split(message_lower))
          THEN FALSE
          ELSE IF \/ HasQuestionMark(message)
                  \/ \E word \in question_words : StartsWith(message_lower, word)
          THEN TRUE
          ELSE IF \E word \in question_words : HasWord(message_lower, word)
          THEN TRUE
          ELSE WordCount(message) <= 2

\* top_k of generate_response when the caller gives none
DefaultTopK == 6

\* has_relevant_sources
HasRelevantSources(sources) ==
  \E i \in 1..Len(sources) :
     sources[i].content # <<>> /\ CharLen(Strip(sources[i].content)) > 10

\* what the try block around generate_response can end with: nothing when
\* RAG is not used, an exception, or the RAGResponse
RagOutcomes(store, message, use_rag) ==
  IF ~(use_rag /\ is_knowledge_query(message))
  THEN {[called |-> FALSE, raised |-> FALSE, sources |-> <<>>,
         exchanges |-> <<>>, answer |-> ""]}
  ELSE {[called |-> TRUE, raised |-> TRUE, sources |-> <<>>,
         exchanges |-> <<>>, answer |-> ""]}
       \cup
       UNION {LET relevant_docs == similarity_search(store, so.dist, DefaultTopK,
                                                    NoThreshold, so.ok)
                  relevant_sources == FilterRelevant(relevant_docs, message, 0,
                                                     {}, <<>>)
              IN {[called |-> TRUE, raised |-> FALSE,
                   sources |-> Respond(message, relevant_sources, tape).sources,
                   exchanges |-> Respond(message, relevant_sources, tape).exchanges,
                   answer |-> Respond(message, relevant_sources, tape).answer.body] :
                    tape \in {t \in TapesFor(relevant_sources) : Len(t) <= 1}} :
              so \in SearchOutcomes(store)}

\* what chat_message(message, model_type, use_rag) returns when the RAG step
\* ends with rag and the generation backend answers with exchange x
ChatResult(message, model_type, use_rag, rag, x) ==
  [op |-> "chat_message", message |-> message,
   model_type |-> model_type, use_rag |-> use_rag,
   knowledge |-> is_knowledge_query(message), rag |-> rag]
  @@ (IF rag.called /\ ~rag.raised /\ HasRelevantSources(rag.sources)
      THEN [text |-> rag.answer, model_used |-> "rag",
            sources |-> rag.sources, base_calls |-> <<>>]
      ELSE [text |-> get_openai_response(x).text,
            model_used |-> model_type,
            sources |-> <<>>,
            base_calls |-> <<[prompt |-> message, exchange |-> x]>>])

\* chat_message(message, model_type, use_rag)
ChatMessage ==
  /\ last = Idle
  /\ \E message \in ChatMessages, model_type \in ModelTypes, use_rag \in BOOLEAN :
     \E rag \in RagOutcomes(index, message, use_rag), x \in Exchanges :
       last' = ChatResult(message, model_type, use_rag, rag, x)
  /\ UNCHANGED <<index, persisted, ingested, nIngest, files>>

\* the stores the chat route's RAGService can have loaded at start-up
ChatStores ==
  {<<Placeholder>>, ValidChunks(DocZ), ValidChunks(DocS), <<Chunk(TShort, "s.txt")>>}

InitChat ==
  /\ index \in ChatStores
  /\ persisted = index
  /\ ingested = {}
  /\ nIngest = 0
  /\ last = Idle
  /\ FilesAfterBootstrap
  /\ svc = [p \in Services |-> Down]

NextChat ==
  \/ ChatMessage
  \/ Return

SpecChat == InitChat /\ [][NextChat]_vars

(***************************************************************************)
(* DocumentProcessor.load_documents                                        *)
(***************************************************************************)
MaxUrls == 3

\* what a loader call does: the documents it returns, or an exception
Loaded(docs) == [raised |-> FALSE, docs |-> docs]
LoadError == [raised |-> TRUE, docs |-> <<>>]

\* file_path: none, a PDF of two pages, a text file, a file the loader
\* raises on
NoPath == [given |-> FALSE, load |-> Loaded(<<>>)]

FilePaths ==
  {NoPath,
   [given |-> TRUE, load |-> Loaded(<<Chunk(TRiskA, "a.pdf"), Chunk(TCopy, "a.pdf")>>)],
   [given |-> TRUE, load |-> Loaded(<<Chunk(TRiskB, "b.txt")>>)],
   [given |-> TRUE, load |-> LoadError]}

UrlNames == <<"http://u1", "http://u2", "http://u3", "http://u4">>

\* _load_url_content(url): a page, a response without documents, or the
\* ValueError it raises
UrlOutcomes(url) == {Loaded(<<Chunk(TZyx, url)>>), Loaded(<<>>), LoadError}

\* urls: the batches of at most MaxUrls URLs, each with what loading it does
UrlBatches ==
  UNION {{b \in [1..n -> UNION {UrlOutcomes(UrlNames[i]) : i \in 1..n}] :
            \A i \in 1..n : b[i] \in UrlOutcomes(UrlNames[i])} : n \in 0..MaxUrls}

AfterUrlErrorMut(remainder) == <<>>

\* `except Exception: print(...); continue`: what the loop still adds
\* after a URL that failed
AfterUrlError(remainder) == remainder

RECURSIVE LoadUrls(_)
\* the loop over urls
LoadUrls(urls) ==
  IF urls = <<>> THEN <<>>
  ELSE IF Head(urls).raised THEN AfterUrlError(LoadUrls(Tail(urls)))
  ELSE Head(urls).docs \o LoadUrls(Tail(urls))

\* load_documents(file_path, urls)
load_documents(file_path, urls) ==
  IF file_path.given /\ file_path.load.raised
  THEN [raised |-> TRUE, documents |-> <<>>]
  ELSE [raised |-> FALSE,
        documents |-> (IF file_path.given THEN file_path.load.docs ELSE <<>>)
                      \o LoadUrls(urls)]

LoadDocuments ==
  /\ last = Idle
  /\ \E file_path \in FilePaths, urls \in UrlBatches :
       last' = [op |-> "load_documents", file_path |-> file_path, urls |-> urls]
               @@ load_documents(file_path, urls)
  /\ UNCHANGED <<index, persisted, ingested, nIngest, files>>

NextLoad ==
  \/ LoadDocuments
  \/ Return

SpecLoad == Init /\ [][NextLoad]_vars

(***************************************************************************)
(* RAGService._is_question_only, and generate_response over an index that  *)
(* holds an exam question                                                  *)
(***************************************************************************)
TQuestion == <<"What", " ", "is", " ", "risk?">>
TNumbered == <<"1.", " ", "which", " ", "risk?", " ", "a.", " ", "low">>
TExplained == <<"What", " ", "is", " ", "risk?", " ", "because", " ", "risk?">>

\* the lower-case tokens that hold a question mark
QuestionTokens == {"zyxoria?", "france?", "risk?"}

\* r'^\s*\d+\.\s*[A-Z]' (matched ignoring case)
NumberedQuestion(content) ==
  /\ Len(Split(content)) >= 2
  /\ content[1] \in {"1.", "2.", "3."}

\* r'\?\s*$'
EndsWithQuestionMark(content) ==
  content # <<>> /\ content[Len(content)] \in QuestionTokens

\* r'\b(what|when|where|why|how|which|who|whom|whose)\b.*\?'
QuestionWordThenMark(content) ==
  \E i \in 1..Len(content) :
    /\ StripPunct(content[i]) \in {"what", "when", "where", "why", "how",
                                   "which", "who", "whom", "whose"}
    /\ \E j \in i..Len(content) : content[j] \in QuestionTokens

\* r'\b(select|choose|identify|which of the following)\b'
TestQuestionPattern(content) ==
  \/ \E i \in 1..Len(content) :
       StripPunct(content[i]) \in {"select", "choose", "identify"}
  \/ ContainsPhrase(content, <<"which", " ", "of", " ", "the", " ", "following">>)

\* r'\b(a\.|b\.|c\.|d\.|e\.|i\.|ii\.|iii\.|iv\.|v\.)'
OptionMarker(content) ==
  \E i \in 1..Len(content) :
    content[i] \in {"a.", "b.", "c.", "d.", "e.", "i.", "ii.", "iii.", "iv.", "v."}

\* the three answer_indicators
AnswerIndicator(content) ==
  \/ \E i \in 1..(Len(content) - 1) :
       /\ content[i] \in {"answer", "answer:", "explanation", "explanation:"}
       /\ content[i + 1] = Space
  \/ \E a \in {"correct", "right", "best"}, b \in {"answer", "option", "choice"} :
       \E i \in 1..(Len(content) - 2) :
         /\ content[i] = a /\ content[i + 1] = Space
         /\ StripPunct(content[i + 2]) = b
  \/ \E i \in 1..Len(content) :
       StripPunct(content[i]) \in {"because", "since", "as", "therefore",
                                   "thus", "hence"}
  \/ ContainsPhrase(content, <<"due", " ", "to">>)

Indicator(b) == IF b THEN 1 ELSE 0

_is_question_only(content) ==
  LET c == Lower(Strip(content))
      question_indicators_count ==
        Indicator(NumberedQuestion(c)) + Indicator(EndsWithQuestionMark(c))
        + Indicator(QuestionWordThenMark(c)) + Indicator(TestQuestionPattern(c))
        + Indicator(OptionMarker(c))
      answer_indicators_count == Indicator(AnswerIndicator(c))
  IN question_indicators_count >= 2 /\ answer_indicators_count = 0

\* an index of exam material: two bare questions, a question with its
\* explanation and a paragraph of text
QuestionStore ==
  <<Chunk(TQuestion, "exam.pdf"), Chunk(TNumbered, "exam.pdf"),
    Chunk(TExplained, "exam.pdf"), Chunk(TRiskA, "a.pdf")>>

InitQuestion ==
  /\ index = QuestionStore
  /\ persisted = index
  /\ ingested = Range(QuestionStore)
  /\ nIngest = 1
  /\ last = Idle
  /\ FilesAfterBootstrap
  /\ svc = [p \in Services |-> Down]

NextQuestion ==
  \/ GenerateResponse
  \/ Return

SpecQuestion == InitQuestion /\ [][NextQuestion]_vars

(***************************************************************************)
(* similarity_search and the metadata of the stored documents              *)
(*                                                                         *)
(* An entry of the store is a Document: its text, its source and, once a   *)
(* search has written it, metadata["score"].  The loop of                  *)
(* similarity_search assigns doc.metadata["score"] on the Document objects *)
(* the store's search hands out; stored is TRUE when these are the objects *)
(* the store keeps and FALSE when they are copies.                         *)
(***************************************************************************)
RECURSIVE NearestPositions(_, _, _, _)
\* the positions of the n nearest entries, nearest first
NearestPositions(store, dist, S, n) ==
  IF n = 0 \/ S = {} THEN <<>>
  ELSE LET i == Nearest(store, dist, S)
       IN <<i>> \o NearestPositions(store, dist, S \ {i}, n - 1)

RECURSIVE ScoredPositions(_, _, _, _, _, _, _)
\* the loop over docs_and_scores: the positions of the documents that get
\* as far as doc.metadata["score"] = float(score)
ScoredPositions(ranked, store, dist, seen, count, k, threshold) ==
  IF ranked = <<>> THEN {}
  ELSE LET doc == store[Head(ranked)]
       IN IF threshold # NoThreshold /\ dist[doc.text] > threshold
          THEN ScoredPositions(Tail(ranked), store, dist, seen, count, k, threshold)
          ELSE IF doc.source \in seen
          THEN {Head(ranked)}
               \cup ScoredPositions(Tail(ranked), store, dist, seen, count, k,
                                    threshold)
          ELSE IF count + 1 >= k
          THEN {Head(ranked)}
          ELSE {Head(ranked)}
               \cup ScoredPositions(Tail(ranked), store, dist,
                                    seen \cup {doc.source}, count + 1, k, threshold)

\* the store after similarity_search(query, k, score_threshold)
StoreAfterSearch(store, dist, k, threshold, searchOk, stored) ==
  IF ~searchOk \/ ~stored THEN store
  ELSE LET ranked == NearestPositions(store, dist, 1..Len(store), FetchK(k))
           scored == ScoredPositions(ranked, store, dist, {}, 0, k, threshold)
       IN [i \in 1..Len(store) |->
             IF i \in scored
             THEN [text |-> store[i].text, source |-> store[i].source,
                   score |-> dist[store[i].text]]
             ELSE store[i]]

\* similarity_search on a store whose documents carry their metadata
SearchStored ==
  /\ last = Idle
  /\ \E k \in 1..MaxK, threshold \in {NoThreshold, 300},
        so \in SearchOutcomes(index), stored \in BOOLEAN :
       /\ index' = StoreAfterSearch(index, so.dist, k, threshold, so.ok, stored)
       /\ last' = [op |-> "similarity_search", k |-> k, threshold |-> threshold,
                   searchOk |-> so.ok, stored |-> stored, before |-> index,
                   results |-> similarity_search(index, so.dist, k, threshold, so.ok)]
  /\ UNCHANGED <<persisted, ingested, nIngest, files>>

\* generate_response on the same store: its similarity_search(query, k=top_k)
\* and the rest of the call
GenerateStored ==
  /\ last = Idle
  /\ \E query \in Queries, top_k \in 1..MaxK, so \in SearchOutcomes(index),
        stored \in BOOLEAN :
       LET relevant_docs == similarity_search(index, so.dist, top_k, NoThreshold,
                                              so.ok)
           relevant_sources == FilterRelevant(relevant_docs, query, 0, {}, <<>>)
       IN \E tape \in TapesFor(relevant_sources) :
            /\ Len(tape) <= 1
            /\ index' = StoreAfterSearch(index, so.dist, top_k, NoThreshold,
                                         so.ok, stored)
            /\ last' = [op |-> "generate_response", query |-> query, k |-> top_k,
                        stored |-> stored, before |-> index]
                       @@ Respond(query, relevant_sources, tape)
  /\ UNCHANGED <<persisted, ingested, nIngest, files>>

\* VectorStoreService.save(): the artifact becomes the pickle of the store
SaveCall ==
  /\ last = Idle
  /\ persisted # index
  /\ persisted' = SaveVectorStore(index, persisted, TRUE)
  /\ last' = [op |-> "save", before |-> index]
  /\ UNCHANGED <<index, ingested, nIngest, files>>

\* the stores of the services the searches run on
StoredIndexes ==
  {<<Placeholder>>, ValidChunks(DocZ), ValidChunks(DocS)}

InitStored ==
  /\ index \in StoredIndexes
  /\ persisted = index
  /\ ingested = Range(index) \ {Placeholder}
  /\ nIngest = 0
  /\ last = Idle
  /\ FilesAfterBootstrap
  /\ svc = [p \in Services |-> Down]

NextStored ==
  \/ SearchStored
  \/ GenerateStored
  \/ SaveCall
  \/ Return

SpecStored == InitStored /\ [][NextStored]_vars

(***************************************************************************)
(* The two routes of one application process                               *)
(*                                                                         *)
(* routes/rag.py and routes/chat.py each build a RAGService when they are  *)
(* imported; instance 1 is the ingest route's, instance 2 the chat         *)
(* route's.  The process serves one request at a time: the ingestion is a  *)
(* synchronous call, so a request starts when no instance is in a call.    *)
(***************************************************************************)
RagRoute == 1
ChatRoute == 2

\* rag_service = RAGService() at the import of a route's module
ImportRoute(p) ==
  /\ \A q \in Services \ {p} : svc[q].pc \in {"down", "idle"}
  /\ Construct(p)

\* POST /rag/documents: rag_service.add_documents, which ends in
\* create_vector_store on the route's own instance
RouteAddDocuments ==
  /\ last = Idle
  /\ svc[ChatRoute].pc = "idle"
  /\ Ingest(RagRoute)
  /\ svc'[RagRoute].op = "create_vector_store"

\* POST /chat/ with use_rag: generate_response on the chat route's instance
RouteChatMessage ==
  /\ last = Idle
  /\ svc[RagRoute].pc = "idle"
  /\ svc[ChatRoute].pc = "idle"
  /\ \E message \in {QZyx, QRisk}, model_type \in {"openai"} :
     \E rag \in RagOutcomes(svc[ChatRoute].store, message, TRUE),
        x \in {[kind |-> "ok", content |-> RAnswer]} :
       last' = ChatResult(message, model_type, TRUE, rag, x)
               @@ [searched |-> svc[ChatRoute].store]
  /\ UNCHANGED <<index, persisted, ingested, nIngest, files>>

\* the directory of a first start and of a start on an existing index
InitRoutes ==
  /\ CallInit
  /\ inodes \in {<<>>, <<pickle_dump(<<Placeholder>>)>>,
                 <<pickle_dump(ValidChunks(DocS))>>}
  /\ dir = [n \in Paths |-> IF n = vector_store_path /\ inodes # <<>>
                            THEN 1 ELSE NoFile]
  /\ svc = [p \in Services |-> Down]

NextRoutes ==
  \/ ImportRoute(RagRoute)
  \/ ImportRoute(ChatRoute)
  \/ Save(RagRoute)
  \/ Save(ChatRoute)
  \/ RouteAddDocuments
  \/ RouteChatMessage
  \/ Return

SpecRoutes == InitRoutes /\ [][NextRoutes]_vars

(***************************************************************************)
(* Properties                                                              *)
(***************************************************************************)
IsGenerate == last.op = "generate_response"
IsSearch == last.op = "similarity_search"

\* C1: when no retrieved candidate survives the relevance loop,
\* generate_response returns the not-found answer with no sources and makes
\* no call to the generation backend
C1_NotFoundWithoutGeneration ==
  (IsGenerate /\ last.relevant = <<>>) =>
     /\ last.answer.kind = "not_found"
     /\ last.sources = <<>>
     /\ last.exchanges = <<>>

\* candidates were retrieved for a query with words, none survived, the
\* answer is the not-found one
C1_Witness ==
  /\ IsGenerate
  /\ ~IsBlank(last.query)
  /\ last.retrieved # <<>>
  /\ last.relevant = <<>>
  /\ last.answer.kind = "not_found"

\* C2: the context joined into the prompts, separators included, is at most
\* max_context_length characters
C2_ContextWithinBudget ==
  IsGenerate => JoinedLen(last.context) <= 3000

\* C3 as stated: one call when the first text has no no-answer phrase,
\* otherwise at most three calls
C3_AtMostThreeCalls ==
  (IsGenerate /\ last.relevant # <<>>) =>
     /\ Len(last.exchanges) >= 1
     /\ last.texts[1] \notin {RNoInfo, RDontKnow} => Len(last.exchanges) = 1
     /\ Len(last.exchanges) <= 3

\* C3 amended: one call when the first text has no no-answer phrase,
\* otherwise at most four calls (the first and at most three escalations)
C3_AtMostFourCalls ==
  (IsGenerate /\ last.relevant # <<>>) =>
     /\ Len(last.exchanges) >= 1
     /\ last.texts[1] \notin {RNoInfo, RDontKnow} => Len(last.exchanges) = 1
     /\ Len(last.exchanges) <= 4

\* the escalation went through the concept, extract and final prompts
C3_Witness ==
  /\ IsGenerate
  /\ Len(last.exchanges) = 4
  /\ last.texts[1] \in {RNoInfo, RDontKnow}

\* C4: when a call to the generation backend raised during
\* generate_response, the result is the not-found answer with no sources
C4_BackendErrorGivesNotFound ==
  (IsGenerate /\ \E i \in 1..Len(last.exchanges) :
                    last.exchanges[i].kind \in {"status", "transport"}) =>
     /\ last.answer.kind = "not_found"
     /\ last.sources = <<>>

\* C5: a backend failure (transport error, non-200 status, no content) is
\* never formatted as a grounded answer with sources
C5_FailureNotGrounded ==
  IsGenerate =>
    ~(/\ last.answer.kind = "formatted"
      /\ last.sources # <<>>
      /\ last.texts # <<>>
      /\ BackendFailed(last.exchanges[Len(last.exchanges)])
      /\ last.answer.body = last.texts[Len(last.texts)])

\* C6: for an empty or whitespace-only query generate_response returns the
\* empty-query answer with no sources, without a backend call or a search
C6_EmptyQueryShortCircuit ==
  (IsGenerate /\ Strip(last.query) = <<>>) =>
     /\ last.answer.kind = "empty_query"
     /\ last.sources = <<>>
     /\ last.exchanges = <<>>
     /\ last.searches = 0

\* C7: similarity_search never returns two results whose contents are equal
\* after trimming
C7_NoDuplicateContent ==
  IsSearch =>
    \A i, j \in 1..Len(last.results) :
       i < j => Strip(last.results[i].text) # Strip(last.results[j].text)

DistinctSources(docs) ==
  \A i, j \in 1..Len(docs) : i < j => docs[i].source # docs[j].source

\* C8 as stated, for a search without score threshold that the store
\* answers: at most k results, no two from one source, and exactly k
\* whenever the index holds entries of at least k sources
C8_ExactlyKWhenIndexDiverse ==
  (IsSearch /\ last.searchOk /\ last.threshold = NoThreshold) =>
    /\ Len(last.results) <= last.k
    /\ DistinctSources(last.results)
    /\ Cardinality({index[i].source : i \in 1..Len(index)}) >= last.k
         => Len(last.results) = last.k

\* the entries among the min(3k, 50) nearest that pass the score threshold
C8_Window ==
  LET n == IF 3 * last.k < 50 THEN 3 * last.k ELSE 50
      m == IF Len(last.ranked) < n THEN Len(last.ranked) ELSE n
  IN {i \in 1..m : last.threshold = NoThreshold
                   \/ last.ranked[i].score <= last.threshold}

\* C8 amended: at most k results, no two from one source, and, unless the
\* search of the store fails, exactly k whenever the entries among the
\* min(3k, 50) nearest that pass the score threshold come from at least k
\* sources
C8_ExactlyKWhenWindowDiverse ==
  IsSearch =>
    /\ Len(last.results) <= last.k
    /\ DistinctSources(last.results)
    /\ (/\ last.searchOk
        /\ Cardinality({last.ranked[i].source : i \in C8_Window}) >= last.k)
         => Len(last.results) = last.k

\* two results from two sources for k = 2, out of an index with more entries
\* than the window holds
C8_Witness ==
  /\ IsSearch
  /\ last.searchOk
  /\ last.k = 2
  /\ Len(last.results) = 2
  /\ Len(index) > 6

\* C9: the placeholder entry is never among the results of similarity_search
\* nor among the sources of a generate_response result
C9_PlaceholderNeverSurfaced ==
  /\ IsSearch =>
       \A i \in 1..Len(last.results) : last.results[i].source # Placeholder.source
  /\ IsGenerate =>
       \A i \in 1..Len(last.sources) : last.sources[i].source # Placeholder.source

Count(e, seq) == Cardinality({i \in 1..Len(seq) : seq[i] = e})

\* C10: the index holds the chunks of every RAGService.add_documents call,
\* and a call adds a full copy of its chunks to what the index held
C10_AddDocumentsAppends ==
  /\ ingested \subseteq Range(index)
  /\ last.op = "add_documents" =>
       \A e \in Range(ValidChunks(last.chunks)) :
          Count(e, index) >= Count(e, last.before) + Count(e, ValidChunks(last.chunks))

\* the content stored under the index's file name
Artifact == inodes[dir[vector_store_path]]

\* C11: whatever sequence of start-ups on an empty directory, loads of a
\* saved index, add_documents and create_vector_store calls a service went
\* through, no entry of its index has empty or whitespace-only content
C11_NoBlankEntry ==
  \A p \in Services : \A i \in 1..Len(svc[p].store) :
     /\ svc[p].store[i].text # <<>>
     /\ \E j \in 1..Len(svc[p].store[i].text) : svc[p].store[i].text[j] # " "

\* a list with a whitespace-only chunk was added to a loaded index and saved
C11_Witness ==
  /\ svc[1].boot = "loaded"
  /\ svc[1].op = "add_documents"
  /\ svc[1].chunks = DocZ
  /\ svc[1].saved = "yes"
  /\ Len(svc[1].store) > 2

\* C12: the integer RAGService.add_documents returns is the number of
\* chunks the call put into the index (the store is rebuilt from the chunks
\* that are kept, so that is the length of the index after a call that kept
\* any, and 0 after a call that kept none), whether the save worked or not
C12_ReturnsNumberAdded ==
  last.op = "add_documents" =>
    last.ret = IF \E i \in 1..Len(last.chunks) : ~IsBlank(last.chunks[i].text)
               THEN Len(index)
               ELSE 0

\* C13: while a save runs, and after the saving process was killed at any
\* of its steps, the file under the index's name is the whole pickle of
\* the store saved before or of the store being saved, and a process that
\* loads it never finds it missing or unreadable
C13_ArtifactOldOrNew ==
  /\ dir[vector_store_path] # NoFile
  /\ IsDump(Artifact)
  /\ Artifact[1].of \in {svc[1].durable, svc[1].saving}
  /\ \A p \in Services :
       /\ svc[p].read # "corrupt"
       /\ svc[p].boot # "rebuilt"
       /\ p = 2 => svc[p].boot # "created"
       /\ svc[p].boot = "loaded" =>
            svc[p].store \in {svc[1].durable, svc[1].saving} \/ p = 2

\* the writer was killed with the temporary file half written, and the
\* second process loaded the index
C13_Witness ==
  /\ svc[1].pc = "down"
  /\ svc[1].crashes = 1
  /\ dir[temp_path] # NoFile
  /\ Len(inodes[dir[temp_path]]) \in 1..(DumpBlocks - 1)
  /\ svc[2].boot = "loaded"

\* C14: with two processes ingesting under one index name, the file under
\* the index's name is always the whole pickle written by one save
C14_ArtifactIsOneSave ==
  /\ dir[vector_store_path] # NoFile
  /\ IsDump(Artifact)
  /\ \E p \in Services : Artifact[1].of \in {svc[p].durable, svc[p].saving}

\* C15: a service that found an unreadable file under the index's name is
\* constructed all the same, with the new store that holds only its
\* placeholder; ingestion then fills that store and a search returns
\* entries of it
C15_CorruptIndexRebuilt ==
  \A p \in Services :
    /\ svc[p].pc # "failed"
    /\ svc[p].read = "corrupt" =>
         /\ svc[p].boot = "rebuilt"
         /\ svc[p].op = "none" => svc[p].store = <<Placeholder>>
         /\ (svc[p].op = "create_vector_store" /\ ValidChunks(svc[p].chunks) # <<>>)
              => svc[p].store = ValidChunks(svc[p].chunks)
         /\ svc[p].op = "add_documents" =>
              LET n == Len(ValidChunks(svc[p].chunks))
                  m == Len(svc[p].store)
              IN /\ m >= n + 1
                 /\ SubSeq(svc[p].store, m - n + 1, m) = ValidChunks(svc[p].chunks)
         /\ \A i \in 1..Len(svc[p].found) :
              \E j \in 1..Len(svc[p].store) :
                 /\ svc[p].found[i].text = svc[p].store[j].text
                 /\ svc[p].found[i].source = svc[p].store[j].source

\* a service rebuilt its index from an unreadable file, ingested a list
\* and searched it
C15_Witness ==
  /\ svc[1].read = "corrupt"
  /\ svc[1].pc = "idle"
  /\ svc[1].saved = "yes"
  /\ ValidChunks(svc[1].chunks) # <<>>
  /\ svc[1].found # <<>>

\* C16: load_documents goes on after a URL that fails to load and returns
\* the documents of every URL of the batch that loads, in the order of the
\* batch; when the requested file fails to load the exception leaves
\* load_documents and no document is returned
C16_UrlFailureSkippedFileFailureRaised ==
  last.op = "load_documents" =>
    IF last.file_path.given /\ last.file_path.load.raised
    THEN last.raised /\ last.documents = <<>>
    ELSE /\ ~last.raised
         /\ \A i \in 1..Len(last.urls) :
              ~last.urls[i].raised =>
                \A k \in 1..Len(last.urls[i].docs) :
                   \E j \in 1..Len(last.documents) :
                      last.documents[j] = last.urls[i].docs[k]
         /\ \A i, j \in 1..Len(last.documents) :
              (i < j /\ last.documents[i].source \in Range(UrlNames)
                      /\ last.documents[j].source \in Range(UrlNames))
                => \E a, b \in 1..Len(last.urls) :
                      /\ a < b
                      /\ last.documents[i] \in Range(last.urls[a].docs)
                      /\ last.documents[j] \in Range(last.urls[b].docs)

\* the first URL of a batch failed and the page of a later one was
\* returned after the pages of the file
C16_Witness ==
  /\ last.op = "load_documents"
  /\ last.file_path.given
  /\ Len(last.urls) >= 2
  /\ last.urls[1].raised
  /\ ~last.raised
  /\ \E i \in 2..Len(last.urls) : \E j \in 1..Len(last.documents) :
        last.urls[i].docs = <<last.documents[j]>>

\* C17: when the chunk "The capital of Zyxoria is Zyxtropolis" of the index
\* is among the candidates retrieved for "What is the capital of Zyxoria?",
\* it is among the sources of the response, whatever distance the index
\* reports for it and whichever score_threshold the caller uses
C17_ZyxoriaChunkInSources ==
  (/\ IsGenerate
   /\ last.query = QZyx
   /\ \E i \in 1..Len(index) : index[i].text = TZyx
   /\ \E i \in 1..Len(last.retrieved) : Strip(last.retrieved[i].text) = TZyx)
    => \E j \in 1..Len(last.sources) : last.sources[j].content = TZyx

\* C18: with the sentence on Zyxoria as the only ingested chunk, the
\* response to "What is the capital of France?" has no sources, no context
\* was built from the chunk and no prompt went to the generation backend
C18_FranceNotGrounded ==
  (IsGenerate /\ last.query = QFrance) =>
     /\ last.sources = <<>>
     /\ last.relevant = <<>>
     /\ last.context = <<>>
     /\ last.exchanges = <<>>

\* C19: the chat endpoint answers with model_used = rag and sources only
\* when RAG is enabled, the message is a knowledge query and the RAG
\* response has a source with more than 10 characters of content; in
\* every other case it makes exactly one call to the generation backend,
\* with the message as it came, and answers with no sources and a
\* model_used that is not rag
C19_RagLabelOnlyWhenGrounded ==
  last.op = "chat_message" =>
    LET grounded == /\ last.use_rag
                    /\ last.knowledge
                    /\ ~last.rag.raised
                    /\ \E i \in 1..Len(last.rag.sources) :
                          CharLen(Strip(last.rag.sources[i].content)) > 10
    IN /\ (last.model_used = "rag" /\ last.sources # <<>>) => grounded
       /\ ~grounded =>
            /\ Len(last.base_calls) = 1
            /\ last.base_calls[1].prompt = last.message
            /\ last.sources = <<>>
            /\ last.model_used # "rag"

\* C20: _is_relevant_document returns false for an empty or
\* whitespace-only query and for an empty content, whatever the content
\* and the score
C20_EmptyQueryOrContentRejected ==
  (/\ last.op = "_is_relevant_document"
   /\ \/ last.query = <<>>
      \/ \A i \in 1..Len(last.query) : last.query[i] = " "
      \/ last.doc_content = <<>>)
    => ~last.ret

\* C21: when the query contains "zyxoria" (any case),
\* _is_relevant_document accepts a candidate only if the candidate
\* content contains "zyxoria" too, whatever the content and the score
C21_RareKeywordNeedsKeywordInContent ==
  (/\ last.op = "_is_relevant_document"
   /\ ContainsWord(Lower(last.query), "zyxoria")
   /\ last.ret)
    => ContainsWord(Lower(last.doc_content), "zyxoria")

\* C22: no candidate that _is_question_only takes for a bare question is
\* among the sources of a generate_response result or in the context sent
\* to the generation backend, whatever its score and term overlap
C22_NoQuestionOnlySource ==
  IsGenerate =>
    /\ \A i \in 1..Len(last.sources) : ~_is_question_only(last.sources[i].content)
    /\ \A i \in 1..Len(last.context) :
         ~_is_question_only(last.relevant[i].content)

\* C23: for a query that is not empty and has no "zyxoria" in it and a
\* candidate that is not empty, _is_relevant_document accepts exactly when
\* combined_score >= threshold, or term_ratio >= 0.4, or similarity >= 0.75
\* with term_ratio >= 0.25, or the query has at most 2 meaningful terms and
\* term_ratio >= 0.5; term_ratio >= 0.4 alone is enough for acceptance
C23_AcceptedExactlyByTheFourRules ==
  (/\ last.op = "_is_relevant_document"
   /\ ~IsBlank(last.query)
   /\ ~ContainsWord(Lower(last.query), "zyxoria")
   /\ last.doc_content # <<>>)
    => LET terms == QueryTerms(last.query)
           n == Max(1, Len(terms))
           m == MatchingTerms(last.doc_content, last.query)
           similarity == NormalizedScore(last.score)
           authoritative == ContainsWord(Lower(last.doc_content), "syllabus")
       IN /\ last.ret <=>
               \/ CombinedAtLeastThreshold(last.doc_content, last.query,
                                           last.score, authoritative)
               \/ 10 * m >= 4 * n
               \/ (similarity >= 750 /\ 4 * m >= n)
               \/ (Len(terms) <= 2 /\ 2 * m >= n)
          /\ 10 * m >= 4 * n => last.ret

\* C24: with the query, the number of words of the candidate and the
\* similarity fixed, the combined_score of _is_relevant_document does not
\* decrease when more query terms match: no candidate of the same length
\* with at least as many matching terms has a lower combined_score
C24_CombinedScoreMonotone ==
  (last.op = "_is_relevant_document" /\ last.combined # NotScored) =>
    \A other \in Contents :
      (/\ ReachesScoring(other, last.query)
       /\ WordCount(Lower(other)) = WordCount(Lower(last.doc_content))
       /\ MatchingTerms(other, last.query)
            >= MatchingTerms(last.doc_content, last.query))
        => LoggedCombined(other, last.query, last.score) >= last.combined

\* a candidate long enough for the length penalty, scored at a distance
\* inside the normalised range, while another candidate of the same length
\* matches more terms of the query
C24_Witness ==
  /\ last.op = "_is_relevant_document"
  /\ last.combined # NotScored
  /\ WordCount(Lower(last.doc_content)) > 800
  /\ last.score = 500
  /\ \E other \in Contents :
       /\ ReachesScoring(other, last.query)
       /\ WordCount(Lower(other)) = WordCount(Lower(last.doc_content))
       /\ MatchingTerms(other, last.query)
            > MatchingTerms(last.doc_content, last.query)
       /\ LoggedCombined(other, last.query, last.score) > last.combined

\* C25: the sources of a generate_response result, which are the blocks of
\* its context in the same order, are ordered best-first: a source with a
\* smaller distance never comes after a source with a larger distance
C25_SourcesBestFirst ==
  IsGenerate =>
    /\ \A i, j \in 1..Len(last.sources) :
         i < j => last.sources[i].score <= last.sources[j].score
    /\ \A i, j \in 1..Len(last.relevant) :
         i < j => last.relevant[i].score <= last.relevant[j].score

\* C26: load_documents returns a document if and only if its content has
\* at least 10 words: every document the file or a URL yields with fewer
\* than 10 words is left out and every other one is returned
C26_OnlyDocumentsOfTenWords ==
  (last.op = "load_documents" /\ ~last.raised) =>
    LET yielded == (IF last.file_path.given THEN last.file_path.load.docs ELSE <<>>)
                   \o LoadUrls(last.urls)
    IN last.documents = SelectSeq(yielded, LAMBDA d : WordCount(d.text) >= 10)

\* C28: similarity_search and generate_response leave the index as it
\* was: after any number of searches every entry of the index, and of the
\* artifact the next save writes, has the content and the metadata it was
\* ingested with
C28_SearchLeavesIndexUnchanged ==
  /\ last.op \in {"similarity_search", "generate_response"} => index = last.before
  /\ \A i \in 1..Len(index) : index[i] = Chunk(index[i].text, index[i].source)
  /\ \A i \in 1..Len(persisted) :
       persisted[i] = Chunk(persisted[i].text, persisted[i].source)

\* C29: in one process, once add_documents has returned through the ingest
\* route's instance, the index a chat query searches through the chat
\* route's instance holds the chunks that were ingested
C29_IngestedVisibleToChat ==
  (/\ last.op = "chat_message"
   /\ svc[RagRoute].pc = "idle"
   /\ svc[RagRoute].op = "create_vector_store"
   /\ ValidChunks(svc[RagRoute].chunks) # <<>>)
    => Range(ValidChunks(svc[RagRoute].chunks)) \subseteq Range(last.searched)

\* C30: when an ingestion call (add_documents or create_vector_store of
\* the vector store service) has returned without raising, the persisted
\* artifact holds exactly the entries of the in-memory index: a save that
\* failed is not reported as a successful ingestion
C30_ReturnedIngestionIsPersisted ==
  last.op \in {"add_documents", "vs_add_documents"} => persisted = index

====
